---- MODULE Spec2Model ----
(***************************************************************************)
(* A model of the MedCLIP glue code: the IU X-Ray image/text collator      *)
(* (src/medclip/dataset.py) and the dual-encoder model, the prompt         *)
(* classifier, the linear-probe classifier and the checkpoint loading      *)
(* (src/baselines/convirt/medclip/modeling_medclip.py).                    *)
(*                                                                         *)
(* Texts are sequences of one-character strings so that str.split(' ') and *)
(* ' '.join are computed, not assumed.  Tensors are sequences of rows.     *)
(* The pretrained encoders, the tokenizer and the feature extractor are    *)
(* external: an encoder's output is an input of the model, and the         *)
(* tokenizer / feature extractor produce one row per text / image.         *)
(***************************************************************************)
EXTENDS Integers, Sequences, FiniteSets, Bags, TLC

VARIABLES
    \* ---- IUXRayImageTextCollator -------------------------------------
    batch,              \* x: the list of patient records given to __call__
    is_train,           \* self.is_train
    model_max_length,   \* self.tokenizer.model_max_length
    cut_reports,        \* per patient, the local `report` after line 153
    text_list,          \* the local text_list
    pixel_values,       \* inputs['pixel_values'] of the returned mapping
    input_ids,          \* inputs['input_ids'] of the returned mapping
    coll_status,        \* "ready" | "returned" | "raised"
    \* ---- _text_random_cut_ called on its own -------------------------
    text,               \* the argument
    cut_result,         \* the returned string
    cut_start,          \* the start_idx that was drawn, or -1
    cut_status,         \* "ready" | "returned"
    \* ---- MedClipModel ------------------------------------------------
    logit_scale,        \* self.logit_scale.data, in units of 1/10000
    logit_scale_before, \* its value when the last forward call began
    fwd_in,             \* the last call: encoder outputs and return_loss
    fwd_out,            \* the mapping the last call returned
    fwd_status,         \* "ready" | "returned" | "raised"
    \* ---- MedClipPromptClassifier --------------------------------------
    pc_pixels,          \* the image embeddings of pixel_values
    pc_prompts,         \* prompt_inputs, in the iteration order of the dict
    pc_ensemble,        \* self.ensemble
    pc_out,             \* the returned outputs
    pc_status,          \* "ready" | "returned"
    \* ---- MedClipClassifier --------------------------------------------
    clf_args,           \* the constructor's arguments mode and num_class
    clf,                \* the constructed object: mode, loss_fn, fc
    clf_status,         \* "ready" | "constructed" | "assertion_failed"
    clf_call,           \* the last forward call: labels, return_loss, batch
    clf_loss_call,      \* what forward handed to self.loss_fn, and the outcome
    clf_fwd_status,     \* "none" | "returned" | "raised"
    \* ---- checkpoint loading -------------------------------------------
    ck_call,            \* the constructor called and its checkpoint arguments
    ck_loaded,          \* the model's keys that hold checkpoint weights
    ck_printed,         \* the lines printed, in order
    ck_status           \* "ready" | "constructed" | "raised"

collVars == <<batch, is_train, model_max_length, cut_reports, text_list,
              pixel_values, input_ids, coll_status>>
cutVars  == <<text, cut_result, cut_start, cut_status>>
modelVars == <<logit_scale, logit_scale_before, fwd_in, fwd_out, fwd_status>>
pcVars   == <<pc_pixels, pc_prompts, pc_ensemble, pc_out, pc_status>>
clfVars  == <<clf_args, clf, clf_status, clf_call, clf_loss_call, clf_fwd_status>>
ckVars   == <<ck_call, ck_loaded, ck_printed, ck_status>>
vars     == <<collVars, cutVars, modelVars, pcVars, clfVars, ckVars>>


----------------------------------------------------------------------------
(* Bounds of the model.                                                    *)

\* patients in one batch
MaxBatch == 2
\* images per projection (frontal, lateral) of one patient
MaxImages == 2
\* tokenizer.model_max_length, the constructor's default of 77 words scaled
\* down to the size of the modelled texts: _text_random_cut_ on its own is
\* run with every value of 1..MaxModelLen, the collator with CollatorMaxLen
MaxModelLen == 2
CollatorMaxLen == 1
\* characters of a text given to _text_random_cut_ on its own
MaxTextLen == 5
\* images, and texts, of one forward call of the dual encoder
MaxEmbeds == 2
\* classes of a prompt mapping, and prompts of one class
MaxClasses == 2
MaxPrompts == 2
\* num_class of the linear-probe classifier ranges over 1..MaxNumClass
MaxNumClass == 4
\* rows of a label tensor given to the classifier
MaxLabelBatch == 2

----------------------------------------------------------------------------
(* Python helpers.                                                         *)

Max(a, b) == IF a >= b THEN a ELSE b
Min(a, b) == IF a <= b THEN a ELSE b

\* seq[a:b] for 0 <= a, 0 <= b: Python clamps the slice to the sequence
Slice(seq, a, b) == SubSeq(seq, a + 1, Min(b, Len(seq)))

\* index of the first ' ' of s, or 0
RECURSIVE FirstSpace(_, _)
FirstSpace(s, i) ==
    IF i > Len(s) THEN 0
    ELSE IF s[i] = " " THEN i
    ELSE FirstSpace(s, i + 1)

\* text.split(' '): one token between every two separators, '' included
RECURSIVE Split(_)
Split(s) ==
    LET i == FirstSpace(s, 1) IN
    IF i = 0 THEN <<s>>
    ELSE <<SubSeq(s, 1, i - 1)>> \o Split(SubSeq(s, i + 1, Len(s)))

\* ' '.join(tokens)
RECURSIVE Join(_)
Join(tokens) ==
    IF Len(tokens) = 0 THEN <<>>
    ELSE IF Len(tokens) = 1 THEN tokens[1]
    ELSE tokens[1] \o <<" ">> \o Join(Tail(tokens))

\* np.random.randint(low, high): the integers of [low, high)
RandInt(low, high) == low .. (high - 1)

\* [report] * n
Repeat(x, n) == [k \in 1..n |-> x]

\* torch.cat / list concatenation of a list of sequences
RECURSIVE Concat(_)
Concat(chunks) ==
    IF Len(chunks) = 0 THEN <<>> ELSE Head(chunks) \o Concat(Tail(chunks))

----------------------------------------------------------------------------
(* IUXRayImageTextCollator._text_random_cut_                               *)

\* the slice the method joins, given the drawn start_idx
CutWindowNoOffset(token_list, start_idx, max_len) ==
    Slice(token_list, start_idx, max_len)

CutWindow(token_list, start_idx, max_len) ==
    Slice(token_list, start_idx, start_idx + max_len)

MaxStartIdx(t, max_len) == Max(Len(Split(t)) - max_len, 0)

\* the start indices the method can draw (empty when it returns early)
CutStarts(t, max_len) ==
    IF MaxStartIdx(t, max_len) = 0 THEN {}
    ELSE RandInt(0, MaxStartIdx(t, max_len))

\* the string returned once start_idx is drawn
CutAt(t, start_idx, max_len) == Join(CutWindow(Split(t), start_idx, max_len))

\* every string the method can return for text t
TextRandomCut(t, max_len) ==
    IF MaxStartIdx(t, max_len) = 0 THEN {t}
    ELSE {CutAt(t, s, max_len) : s \in CutStarts(t, max_len)}

----------------------------------------------------------------------------
(* Inputs of the collator.                                                 *)

Chars(n) == [1..n -> {"a", " "}]
Texts == UNION {Chars(n) : n \in 0..MaxTextLen}

ReportABC == <<"a", " ", "b", " ", "c">>
ReportDEF == <<"d", " ", "e", " ", "f">>
Reports   == {ReportABC, ReportDEF}

\* IUXRayDataset.__getitem__: the record of the patient at position uid
Patient(uid, nf, nl, report) ==
    [frontal |-> [k \in 1..nf |-> <<uid, "frontal", k>>],
     lateral |-> [k \in 1..nl |-> <<uid, "lateral", k>>],
     report  |-> report]

\* the batch of n patients with the given image counts and reports
Batch(n, nf, nl, rp) == [p \in 1..n |-> Patient(p, nf[p], nl[p], rp[p])]

----------------------------------------------------------------------------
(* IUXRayImageTextCollator.__call__                                        *)

\* self.feature_extractor(images, return_tensors='pt')['pixel_values']:
\* one row per image, in the order of the list
FeatureExtractor(images) == [k \in 1..Len(images) |-> [pixels_of |-> images[k]]]

\* self.tokenizer(text_list, ...): one row per text, in the order of the list
Tokenizer(texts) == [k \in 1..Len(texts) |-> [tokens_of |-> texts[k]]]

\* the chunks one patient appends to inputs['pixel_values']
PatientChunksLateralFirst(data) ==
    (IF Len(data.lateral) > 0 THEN <<FeatureExtractor(data.lateral)>> ELSE <<>>)
    \o (IF Len(data.frontal) > 0 THEN <<FeatureExtractor(data.frontal)>> ELSE <<>>)

PatientChunks(data) ==
    (IF Len(data.frontal) > 0 THEN <<FeatureExtractor(data.frontal)>> ELSE <<>>)
    \o (IF Len(data.lateral) > 0 THEN <<FeatureExtractor(data.lateral)>> ELSE <<>>)

\* the texts one patient adds to text_list, report being the local `report`
PatientTextsOncePerView(data, report) ==
    (IF Len(data.frontal) > 0 THEN <<report>> ELSE <<>>)
    \o (IF Len(data.lateral) > 0 THEN <<report>> ELSE <<>>)

PatientTexts(data, report) ==
    (IF Len(data.frontal) > 0 THEN Repeat(report, Len(data.frontal)) ELSE <<>>)
    \o (IF Len(data.lateral) > 0 THEN Repeat(report, Len(data.lateral)) ELSE <<>>)

\* the loop over the batch: the list of chunks and the text list after the
\* first k patients
RECURSIVE LoopChunks(_, _)
LoopChunks(x, k) ==
    IF k = 0 THEN <<>> ELSE LoopChunks(x, k - 1) \o PatientChunks(x[k])

RECURSIVE LoopTexts(_, _, _)
LoopTexts(x, reports, k) ==
    IF k = 0 THEN <<>>
    ELSE LoopTexts(x, reports, k - 1) \o PatientTexts(x[k], reports[k])

\* the values the local `report` can take for every patient (line 152-153)
PatientReports(data, train, max_len) ==
    IF train THEN TextRandomCut(data.report, max_len) ELSE {data.report}

LoopReports(x, train, max_len) ==
    { r \in [1..Len(x) -> UNION {PatientReports(x[p], train, max_len) : p \in 1..Len(x)}] :
        \A p \in 1..Len(x) : r[p] \in PatientReports(x[p], train, max_len) }

CollInit ==
    /\ \E n \in 0..MaxBatch :
       \E nf \in [1..n -> 0..MaxImages], nl \in [1..n -> 0..MaxImages],
          rp \in [1..n -> Reports] :
            batch = Batch(n, nf, nl, rp)
    /\ is_train \in BOOLEAN
    /\ model_max_length = CollatorMaxLen
    /\ cut_reports = <<>>
    /\ text_list = <<>>
    /\ pixel_values = <<>>
    /\ input_ids = <<>>
    /\ coll_status = "ready"

CollIdle ==
    /\ batch = <<>>
    /\ is_train = FALSE
    /\ model_max_length = 1
    /\ cut_reports = <<>>
    /\ text_list = <<>>
    /\ pixel_values = <<>>
    /\ input_ids = <<>>
    /\ coll_status = "idle"

\* __call__ when torch.cat is given at least one chunk: the mapping is returned
CollateReturn ==
    /\ coll_status = "ready"
    /\ LoopChunks(batch, Len(batch)) # <<>>
    /\ \E reports \in LoopReports(batch, is_train, model_max_length) :
        /\ cut_reports' = reports
        /\ text_list' = LoopTexts(batch, reports, Len(batch))
        /\ input_ids' = Tokenizer(LoopTexts(batch, reports, Len(batch)))
    /\ pixel_values' = Concat(LoopChunks(batch, Len(batch)))
    /\ coll_status' = "returned"
    /\ UNCHANGED <<batch, is_train, model_max_length>>
    /\ UNCHANGED <<cutVars, modelVars, pcVars, clfVars, ckVars>>

\* __call__ when no patient of the batch has an image: inputs['pixel_values']
\* is the empty list and torch.cat([]) raises (line 166); nothing is returned
CollateRaise ==
    /\ coll_status = "ready"
    /\ LoopChunks(batch, Len(batch)) = <<>>
    /\ \E reports \in LoopReports(batch, is_train, model_max_length) :
        /\ cut_reports' = reports
        /\ text_list' = LoopTexts(batch, reports, Len(batch))
    /\ coll_status' = "raised"
    /\ UNCHANGED <<batch, is_train, model_max_length, pixel_values, input_ids>>
    /\ UNCHANGED <<cutVars, modelVars, pcVars, clfVars, ckVars>>

CollNext == CollateReturn \/ CollateRaise

----------------------------------------------------------------------------
(* _text_random_cut_ as a function of its own.                             *)

CutInit ==
    /\ text \in Texts
    /\ cut_result = <<>>
    /\ cut_start = -1
    /\ cut_status = "ready"

CutIdle ==
    /\ text = <<>>
    /\ cut_result = <<>>
    /\ cut_start = -1
    /\ cut_status = "idle"

\* max_start_idx == 0: the text is returned as it is
CutReturnText ==
    /\ cut_status = "ready"
    /\ MaxStartIdx(text, model_max_length) = 0
    /\ cut_result' = text
    /\ cut_status' = "returned"
    /\ UNCHANGED <<text, cut_start>>
    /\ UNCHANGED <<collVars, modelVars, pcVars, clfVars, ckVars>>

\* otherwise a start index is drawn and the window is joined
CutReturnWindow ==
    /\ cut_status = "ready"
    /\ \E s \in CutStarts(text, model_max_length) :
        /\ cut_start' = s
        /\ cut_result' = CutAt(text, s, model_max_length)
    /\ cut_status' = "returned"
    /\ UNCHANGED text
    /\ UNCHANGED <<collVars, modelVars, pcVars, clfVars, ckVars>>

CutNext == CutReturnText \/ CutReturnWindow

----------------------------------------------------------------------------
(* MedClipModel: logits and loss.                                          *)
(*                                                                         *)
(* Numbers are fixed point.  The log-scale parameter is kept in units of   *)
(* 1/10000 (4.6052 is 46052) and exp() returns hundredths (exp(0) is 100). *)
(* An embedding is a vector of integers; the encoders are external, and    *)
(* encode_image / encode_text hand over unit-norm vectors.                 *)

\* the clamp bounds of compute_logits, 0 and 4.6052
ClampLow == 0
ClampHigh == 46052
\* log(1 / logit_scale_init_value) = log(1 / 0.07) = 2.6593
LogitScaleInit == 26593

\* values the learnable parameter may hold when forward is called: below the
\* range, its ends, the initial value, just above and far above the range
LogScaleSamples == {-10000, ClampLow, LogitScaleInit, ClampHigh, 46053, 50000}

\* torch.clamp(x, lo, hi)
ClampUpperOnly(x, lo, hi) == Min(x, hi)

Clamp(x, lo, hi) == Min(Max(x, lo), hi)

\* self.logit_scale.exp(): exp(x / 10000) in hundredths, rounded
Exp(x) ==
    CASE x = -10000 -> 37
      [] x = 0      -> 100
      [] x = 26593  -> 1429
      [] x = 46052  -> 10000
      [] x = 46053  -> 10001
      [] x = 50000  -> 14841

RECURSIVE Dot(_, _)
Dot(u, v) ==
    IF Len(u) = 0 THEN 0 ELSE Head(u) * Head(v) + Dot(Tail(u), Tail(v))

\* m.t() of a matrix with at least one row
Transpose(m) == [c \in 1..Len(m[1]) |-> [r \in 1..Len(m) |-> m[r][c]]]

\* torch.matmul(a, b.t()): rows of a against rows of b
MatMulT(a, b) == [r \in 1..Len(a) |-> [c \in 1..Len(b) |-> Dot(a[r], b[c])]]

\* m * scalar
Scale(m, k) == [r \in 1..Len(m) |-> [c \in 1..Len(m[r]) |-> m[r][c] * k]]

\* compute_logits: the clamped parameter and the returned image-by-text matrix
ComputeLogits(img_emb, text_emb, ls) ==
    LET clamped == Clamp(ls, ClampLow, ClampHigh)
        logits_per_text == Scale(MatMulT(text_emb, img_emb), Exp(clamped))
    IN [logit_scale |-> clamped, logits |-> Transpose(logits_per_text)]

RECURSIVE BagOfSeq(_)
BagOfSeq(seq) ==
    IF Len(seq) = 0 THEN EmptyBag ELSE SetToBag({Head(seq)}) (+) BagOfSeq(Tail(seq))

\* torch.arange(n), as 1-based indices
Arange(n) == [k \in 1..n |-> k]

\* nn.functional.cross_entropy(logits, target) with the mean reduction.  The
\* value is (1/div) * sum over the rows r of log(sum_c exp(l[r][c] - l[r][t_r]));
\* it is kept exactly, as the bag of the rows' bags of differences and div.
\* A target that is no column of the matrix raises.
CrossEntropy(logits, target) ==
    IF \E r \in 1..Len(logits) : target[r] > Len(logits[r])
    THEN [kind |-> "raised"]
    ELSE [kind |-> "loss",
          sum  |-> BagOfSeq([r \in 1..Len(logits) |->
                      BagOfSeq([c \in 1..Len(logits[r]) |->
                          logits[r][c] - logits[r][target[r]]])]),
          div  |-> Len(logits)]

\* contrastive_loss
ContrastiveLoss(logits) == CrossEntropy(logits, Arange(Len(logits)))

\* clip_loss: (caption_loss + image_loss) / 2.0; an exception of either
\* cross entropy propagates.  Both means are over the same number of rows
\* whenever neither raises.
ClipLossNoTranspose(similarity) ==
    LET caption_loss == ContrastiveLoss(similarity)
        image_loss   == ContrastiveLoss(similarity)
    IN IF caption_loss.kind = "raised" \/ image_loss.kind = "raised"
       THEN [kind |-> "raised"]
       ELSE [kind |-> "loss",
             sum  |-> caption_loss.sum (+) image_loss.sum,
             div  |-> caption_loss.div * 2]

ClipLoss(similarity) ==
    LET caption_loss == ContrastiveLoss(similarity)
        image_loss   == ContrastiveLoss(Transpose(similarity))
    IN IF caption_loss.kind = "raised" \/ image_loss.kind = "raised"
       THEN [kind |-> "raised"]
       ELSE [kind |-> "loss",
             sum  |-> caption_loss.sum (+) image_loss.sum,
             div  |-> caption_loss.div * 2]

NoneValue == [kind |-> "None"]

\* Python truthiness of the return_loss argument
Truthy(x) == x = "True"

\* MedClipModel.forward on the encoders' outputs: the clamped parameter and
\* the returned mapping, or the exception
Forward(img_embeds, text_embeds, return_loss, ls) ==
    LET cl == ComputeLogits(img_embeds, text_embeds, ls)
        logits_per_image == cl.logits
        logits_per_text  == Transpose(logits_per_image)
        loss == IF Truthy(return_loss) THEN ClipLoss(logits_per_text) ELSE NoneValue
    IN [logit_scale |-> cl.logit_scale,
        raised |-> loss.kind = "raised",
        out |-> [img_embeds |-> img_embeds, text_embeds |-> text_embeds,
                 logits |-> logits_per_image, loss_value |-> loss,
                 logits_per_text |-> logits_per_text]]

Embeds == {<<1, 0>>, <<0, 1>>, <<-1, 0>>}
EmbedBatches == UNION {[1..n -> Embeds] : n \in 1..MaxEmbeds}
ReturnLossArgs == {"None", "False", "True"}

NoCall == [img_embeds |-> <<>>, text_embeds |-> <<>>, return_loss |-> "None"]

ModelInit ==
    /\ logit_scale \in LogScaleSamples
    /\ logit_scale_before = logit_scale
    /\ fwd_in = NoCall
    /\ fwd_out = NoneValue
    /\ fwd_status = "ready"

ModelIdle ==
    /\ logit_scale = LogitScaleInit
    /\ logit_scale_before = LogitScaleInit
    /\ fwd_in = NoCall
    /\ fwd_out = NoneValue
    /\ fwd_status = "idle"

\* one call of forward that returns
ForwardReturn ==
    /\ fwd_status = "ready"
    /\ \E img \in EmbedBatches, txt \in EmbedBatches, rl \in ReturnLossArgs :
       \E f \in {Forward(img, txt, rl, logit_scale)} :
        /\ ~f.raised
        /\ fwd_in' = [img_embeds |-> img, text_embeds |-> txt, return_loss |-> rl]
        /\ logit_scale_before' = logit_scale
        /\ logit_scale' = f.logit_scale
        /\ fwd_out' = f.out
        /\ fwd_status' = "returned"
    /\ UNCHANGED <<collVars, cutVars, pcVars, clfVars, ckVars>>

\* one call of forward in which the loss raises: the parameter was clamped
\* before, and nothing is returned
ForwardRaise ==
    /\ fwd_status = "ready"
    /\ \E img \in EmbedBatches, txt \in EmbedBatches, rl \in ReturnLossArgs :
       \E f \in {Forward(img, txt, rl, logit_scale)} :
        /\ f.raised
        /\ fwd_in' = [img_embeds |-> img, text_embeds |-> txt, return_loss |-> rl]
        /\ logit_scale_before' = logit_scale
        /\ logit_scale' = f.logit_scale
        /\ fwd_out' = NoneValue
        /\ fwd_status' = "raised"
    /\ UNCHANGED <<collVars, cutVars, pcVars, clfVars, ckVars>>

ModelNext == ForwardReturn \/ ForwardRaise

----------------------------------------------------------------------------
(* MedClipPromptClassifier.forward                                         *)
(*                                                                         *)
(* A score is a fraction [num, den] of fixed-point logits, so that the     *)
(* mean over the prompts is exact.                                         *)

RECURSIVE SumSeq(_)
SumSeq(seq) == IF Len(seq) = 0 THEN 0 ELSE Head(seq) + SumSeq(Tail(seq))

RECURSIVE MaxSeq(_)
MaxSeq(seq) ==
    IF Len(seq) = 1 THEN seq[1] ELSE Max(Head(seq), MaxSeq(Tail(seq)))

\* torch.mean(logits, 1): per row, the mean over the columns
MeanDim1(logits) ==
    [r \in 1..Len(logits) |-> [num |-> SumSeq(logits[r]), den |-> Len(logits[r])]]

\* torch.max(logits, 1)[0]: per row, the largest column
MaxDim1(logits) ==
    [r \in 1..Len(logits) |-> [num |-> MaxSeq(logits[r]), den |-> 1]]

\* torch.stack(vectors, 1): the vectors become the columns
Stack0(vectors) == vectors

Stack1(vectors) ==
    [i \in 1..Len(vectors[1]) |-> [k \in 1..Len(vectors) |-> vectors[k][i]]]

\* one iteration of the loop over prompt_inputs.items(): the model is called
\* on the images and the prompts of the class, and the class similarity and
\* the class name are appended
ClassStep(prev, pixels, cls, ensemble) ==
    LET medclip_outputs == Forward(pixels, cls.embeds, "None", prev.logit_scale)
        logits == medclip_outputs.out.logits
        cls_sim == IF ensemble THEN MeanDim1(logits) ELSE MaxDim1(logits)
    IN [logit_scale |-> medclip_outputs.logit_scale,
        class_similarities |-> Append(prev.class_similarities, cls_sim),
        class_names |-> Append(prev.class_names, cls.cls_name)]

\* the loop: after the first k classes, the model's parameter,
\* class_similarities and class_names
RECURSIVE ClassLoop(_, _, _, _, _)
ClassLoop(pixels, prompts, ensemble, ls, k) ==
    IF k = 0 THEN [logit_scale |-> ls, class_similarities |-> <<>>, class_names |-> <<>>]
    ELSE ClassStep(ClassLoop(pixels, prompts, ensemble, ls, k - 1),
                   pixels, prompts[k], ensemble)

PromptEmbeds == {<<1, 0>>, <<0, 1>>}
PromptPixels == UNION {[1..n -> PromptEmbeds] : n \in 1..MaxEmbeds}
\* the prompt embeddings of one class: 1..MaxPrompts prompts that alternate
\* between two embeddings, so that neighbouring prompts score differently
PromptTexts ==
    {[k \in 1..n |-> IF k % 2 = 1 THEN vw[1] ELSE vw[2]] :
        n \in 1..MaxPrompts,
        vw \in {p \in PromptEmbeds \X PromptEmbeds : p[1] # p[2]}}

ClassNameList == <<"Atelectasis", "Cardiomegaly", "Edema", "Pneumonia">>

\* the key orders of a mapping of n classes that the model explores
NameOrders(n) ==
    {[k \in 1..n |-> ClassNameList[k]], [k \in 1..n |-> ClassNameList[n + 1 - k]]}

\* prompt_inputs: the classes in the order names, class k with prompts e[k]
PromptInputs(n, names, e) ==
    [k \in 1..n |-> [cls_name |-> names[k], embeds |-> e[k]]]

NoOutputs == [logits |-> <<>>, class_names |-> <<>>]

PromptInit ==
    /\ pc_pixels \in PromptPixels
    /\ \E n \in 1..MaxClasses :
       \E names \in NameOrders(n), e \in [1..n -> PromptTexts] :
            pc_prompts = PromptInputs(n, names, e)
    /\ pc_ensemble \in BOOLEAN
    /\ pc_out = NoOutputs
    /\ pc_status = "ready"

PromptIdle ==
    /\ pc_pixels = <<>>
    /\ pc_prompts = <<>>
    /\ pc_ensemble = TRUE
    /\ pc_out = NoOutputs
    /\ pc_status = "idle"

\* forward: one dual-encoder call per class (return_loss is not passed, so
\* it is None and no call raises), then the stack of the class similarities
PromptForward ==
    /\ pc_status = "ready"
    /\ \E loop \in {ClassLoop(pc_pixels, pc_prompts, pc_ensemble, logit_scale,
                              Len(pc_prompts))} :
        /\ logit_scale' = loop.logit_scale
        /\ pc_out' = [logits |-> Stack1(loop.class_similarities),
                      class_names |-> loop.class_names]
    /\ logit_scale_before' = logit_scale
    /\ pc_status' = "returned"
    /\ UNCHANGED <<pc_pixels, pc_prompts, pc_ensemble, fwd_in, fwd_out, fwd_status>>
    /\ UNCHANGED <<collVars, cutVars, clfVars, ckVars>>

PromptNext == PromptForward

----------------------------------------------------------------------------
(* MedClipClassifier                                                       *)

UpperLetters == <<"A", "B", "C", "D", "E", "F", "G", "H", "I", "J", "K", "L", "M", "N", "O", "P", "Q", "R", "S", "T", "U", "V", "W", "X", "Y", "Z">>
LowerLetters == <<"a", "b", "c", "d", "e", "f", "g", "h", "i", "j", "k", "l", "m", "n", "o", "p", "q", "r", "s", "t", "u", "v", "w", "x", "y", "z">>

\* str.lower(), character by character
LowerChar(c) ==
    IF \E k \in 1..Len(UpperLetters) : UpperLetters[k] = c
    THEN LowerLetters[CHOOSE k \in 1..Len(UpperLetters) : UpperLetters[k] = c]
    ELSE c

Lower(str) == [k \in 1..Len(str) |-> LowerChar(str[k])]

Multiclass == <<"m", "u", "l", "t", "i", "c", "l", "a", "s", "s">>
Multilabel == <<"m", "u", "l", "t", "i", "l", "a", "b", "e", "l">>
Binary     == <<"b", "i", "n", "a", "r", "y">>

\* the list of the constructor's assertion
AcceptedModes == {Multiclass, Multilabel, Binary}

\* mode strings given to the constructor
ModeArgs ==
    { Multiclass, <<"M", "u", "l", "t", "i", "C", "l", "a", "s", "s">>, <<"M", "U", "L", "T", "I", "C", "L", "A", "S", "S">>,
      Multilabel, <<"M", "u", "l", "t", "i", "L", "a", "b", "e", "l">>,
      Binary, <<"B", "I", "N", "A", "R", "Y">>,
      <<"s", "o", "f", "t", "m", "a", "x">>, <<"m", "u", "l", "t", "i">>, <<>> }

\* lines 214-223: the loss, chosen by comparing the mode argument as given
SelectLoss(mode, num_class) ==
    IF num_class > 2
    THEN IF mode = Multiclass THEN "CrossEntropyLoss" ELSE "BCEWithLogitsLoss"
    ELSE "BCEWithLogitsLoss"

\* lines 220, 223: the outputs of self.fc
HeadOutputs(num_class) == IF num_class > 2 THEN num_class ELSE 1

\* the assertion of line 212
ModeAccepted(mode) == Lower(mode) \in AcceptedModes

\* the object __init__ builds
Classifier(mode, num_class) ==
    [mode      |-> Lower(mode),
     num_class |-> num_class,
     loss_fn   |-> SelectLoss(mode, num_class),
     fc_out    |-> HeadOutputs(num_class)]

NoClassifier == [mode |-> <<>>, num_class |-> 0, loss_fn |-> "None", fc_out |-> 0]

RECURSIVE Product(_)
Product(shape) == IF Len(shape) = 0 THEN 1 ELSE Head(shape) * Product(Tail(shape))

\* lines 239-241 without the view of rank-1 labels
LabelsForLossNoView(labels, mode) ==
    LET l1 == [shape |-> labels.shape, dtype |-> "float32"]
    IN IF mode = Multiclass
       THEN [shape |-> <<Product(l1.shape)>>, dtype |-> "int64"]
       ELSE l1

\* lines 239-241: .float(), view(-1, 1) of a rank-1 tensor, and for the
\* multiclass mode flatten().long()
LabelsForLoss(labels, mode) ==
    LET l1 == [shape |-> labels.shape, dtype |-> "float32"]
        l2 == IF Len(l1.shape) = 1
              THEN [shape |-> <<l1.shape[1], 1>>, dtype |-> l1.dtype]
              ELSE l1
    IN IF mode = Multiclass
       THEN [shape |-> <<Product(l2.shape)>>, dtype |-> "int64"]
       ELSE l2

\* self.loss_fn(logits, labels): BCEWithLogitsLoss needs a target of the
\* shape of the logits; CrossEntropyLoss with class indices needs one index
\* per row of the logits.  Anything else raises.
LossOutcome(loss_fn, logits_shape, labels) ==
    IF loss_fn = "BCEWithLogitsLoss"
    THEN IF labels.shape = logits_shape /\ labels.dtype = "float32"
         THEN "computed" ELSE "raised"
    ELSE IF labels.dtype = "int64" /\ labels.shape = <<logits_shape[1]>>
         THEN "computed" ELSE "raised"

\* label tensors given to forward for a batch of b images
LabelShapes(b, num_class) == {<<b>>, <<b, 1>>, <<b, num_class>>, <<b, 1, 1>>}
LabelDtypes == {"float32", "int64", "bool"}
NoLabels == [shape |-> <<>>, dtype |-> "None"]
NoLossCall == [labels |-> NoLabels, outcome |-> "None"]
NoClfCall == [labels |-> NoLabels, return_loss |-> FALSE, batch_size |-> 0]

ClfInit ==
    /\ clf_args \in [mode : ModeArgs, num_class : 1..MaxNumClass]
    /\ clf = NoClassifier
    /\ clf_status = "ready"
    /\ clf_call = NoClfCall
    /\ clf_loss_call = NoLossCall
    /\ clf_fwd_status = "none"

ClfIdle ==
    /\ clf_args = [mode |-> <<>>, num_class |-> 1]
    /\ clf = NoClassifier
    /\ clf_status = "idle"
    /\ clf_call = NoClfCall
    /\ clf_loss_call = NoLossCall
    /\ clf_fwd_status = "none"

\* __init__ with a mode the assertion accepts
ClfConstruct ==
    /\ clf_status = "ready"
    /\ ModeAccepted(clf_args.mode)
    /\ clf' = Classifier(clf_args.mode, clf_args.num_class)
    /\ clf_status' = "constructed"
    /\ UNCHANGED <<clf_args, clf_call, clf_loss_call, clf_fwd_status>>
    /\ UNCHANGED <<collVars, cutVars, modelVars, pcVars, ckVars>>

\* __init__ with any other mode string: AssertionError
ClfAssertionFails ==
    /\ clf_status = "ready"
    /\ ~ModeAccepted(clf_args.mode)
    /\ clf_status' = "assertion_failed"
    /\ UNCHANGED <<clf_args, clf, clf_call, clf_loss_call, clf_fwd_status>>
    /\ UNCHANGED <<collVars, cutVars, modelVars, pcVars, ckVars>>

\* forward with labels and return_loss: the labels are prepared and handed
\* to the loss
ClfForwardLoss ==
    /\ clf_status = "constructed"
    /\ clf_fwd_status = "none"
    /\ \E b \in 1..MaxLabelBatch :
       \E shape \in LabelShapes(b, clf.num_class), dtype \in LabelDtypes :
        LET labels == [shape |-> shape, dtype |-> dtype]
            prepared == LabelsForLoss(labels, clf.mode)
            outcome == LossOutcome(clf.loss_fn, <<b, clf.fc_out>>, prepared)
        IN /\ clf_call' = [labels |-> labels, return_loss |-> TRUE, batch_size |-> b]
           /\ clf_loss_call' = [labels |-> prepared, outcome |-> outcome]
           /\ clf_fwd_status' = IF outcome = "raised" THEN "raised" ELSE "returned"
    /\ UNCHANGED <<clf_args, clf, clf_status>>
    /\ UNCHANGED <<collVars, cutVars, modelVars, pcVars, ckVars>>

\* forward without labels or with return_loss off: only embedding and logits
ClfForwardNoLoss ==
    /\ clf_status = "constructed"
    /\ clf_fwd_status = "none"
    /\ \E b \in 1..MaxLabelBatch, return_loss \in BOOLEAN :
       \E labels \in {NoLabels} \cup [shape : LabelShapes(b, clf.num_class),
                                      dtype : LabelDtypes] :
        /\ ~(labels # NoLabels /\ return_loss)
        /\ clf_call' = [labels |-> labels, return_loss |-> return_loss,
                        batch_size |-> b]
    /\ clf_fwd_status' = "returned"
    /\ UNCHANGED <<clf_args, clf, clf_status, clf_loss_call>>
    /\ UNCHANGED <<collVars, cutVars, modelVars, pcVars, ckVars>>

ClfNext == ClfConstruct \/ ClfAssertionFails \/ ClfForwardLoss \/ ClfForwardNoLoss

----------------------------------------------------------------------------
(* Checkpoint loading.                                                     *)
(*                                                                         *)
(* A state dict is its set of keys; a key is the sequence of its           *)
(* dot-separated components.                                               *)

\* the parameters of the sub-models, abridged to one per sub-module
VisionKeys == {<<"model", "weight">>, <<"projection_head", "weight">>}
TextKeys   == {<<"model", "weight">>, <<"projection_head", "weight">>}
MedClipKeys ==
    {<<"vision_model">> \o k : k \in VisionKeys}
    \cup {<<"text_model">> \o k : k \in TextKeys}
    \cup {<<"logit_scale">>}

\* the key sets a weights file may hold
CheckpointKeys == MedClipKeys \cup VisionKeys
Checkpoints == SUBSET CheckpointKeys
NoCheckpoint == {<<"None">>}
CheckpointArgs == Checkpoints \cup {NoCheckpoint}

\* 'vision_model' in key
HasVisionModel(key) == \E k \in 1..Len(key) : key[k] = "vision_model"

\* key.replace('vision_model.', ''): every component vision_model that a dot
\* follows is dropped
RECURSIVE StripVisionModel(_)
StripVisionModel(key) ==
    IF Len(key) <= 1 THEN key
    ELSE IF Head(key) = "vision_model" THEN StripVisionModel(Tail(key))
    ELSE <<Head(key)>> \o StripVisionModel(Tail(key))

\* the new_state_dict of load_from_medclip
NewStateDict(state_dict) ==
    {StripVisionModel(key) : key \in {k \in state_dict : HasVisionModel(k)}}

\* nn.Module.load_state_dict: the keys loaded, the missing and the
\* unexpected keys, and whether it raises (strict with any mismatch)
LoadStateDictAlwaysStrict(own_keys, state_dict, strict) ==
    [loaded     |-> own_keys \cap state_dict,
     missing    |-> own_keys \ state_dict,
     unexpected |-> state_dict \ own_keys,
     raised     |-> own_keys # state_dict]

LoadStateDict(own_keys, state_dict, strict) ==
    [loaded     |-> own_keys \cap state_dict,
     missing    |-> own_keys \ state_dict,
     unexpected |-> state_dict \ own_keys,
     raised     |-> strict /\ own_keys # state_dict]

\* the three print calls after a lenient load
LoadReport(result) ==
    <<[line |-> "missing keys:", keys |-> result.missing],
      [line |-> "unexpected keys:", keys |-> result.unexpected],
      [line |-> "load model weight from:", keys |-> {}]>>

\* MedClipVisionModel.__init__, lines 49-54
VisionLoadCheckpoint(checkpoint) ==
    IF checkpoint = NoCheckpoint
    THEN [loaded |-> {}, printed |-> <<>>, raised |-> FALSE]
    ELSE LET r == LoadStateDict(VisionKeys, checkpoint, FALSE)
         IN [loaded |-> r.loaded, printed |-> LoadReport(r), raised |-> r.raised]

\* MedClipVisionModel.__init__, lines 55-56, and load_from_medclip
VisionLoadFromMedclip(medclip_checkpoint) ==
    IF medclip_checkpoint = NoCheckpoint
    THEN [loaded |-> {}, printed |-> <<>>, raised |-> FALSE]
    ELSE LET r == LoadStateDict(VisionKeys, NewStateDict(medclip_checkpoint), FALSE)
         IN [loaded |-> r.loaded, printed |-> LoadReport(r), raised |-> r.raised]

\* MedClipVisionModel(checkpoint, medclip_checkpoint): both loads in turn
VisionModelInit(checkpoint, medclip_checkpoint) ==
    LET a == VisionLoadCheckpoint(checkpoint)
        b == VisionLoadFromMedclip(medclip_checkpoint)
    IN IF a.raised THEN [loaded |-> a.loaded, printed |-> a.printed, raised |-> TRUE]
       ELSE [loaded  |-> a.loaded \cup b.loaded,
             printed |-> a.printed \o b.printed,
             raised  |-> b.raised]

\* MedClipModel(checkpoint, vision_checkpoint): the vision model is built
\* from vision_checkpoint, then lines 95-98 load the full state dict with
\* the default strict=True
MedClipModelInit(checkpoint, vision_checkpoint) ==
    LET v == VisionModelInit(vision_checkpoint, NoCheckpoint)
        own == {<<"vision_model">> \o k : k \in v.loaded}
    IN IF v.raised \/ checkpoint = NoCheckpoint
       THEN [loaded |-> own, printed |-> v.printed, raised |-> v.raised]
       ELSE LET r == LoadStateDict(MedClipKeys, checkpoint, TRUE)
            IN IF r.raised
               THEN [loaded |-> own, printed |-> v.printed, raised |-> TRUE]
               ELSE [loaded  |-> own \cup r.loaded,
                     printed |-> v.printed
                                 \o <<[line |-> "load model weight from:", keys |-> {}]>>,
                     raised  |-> FALSE]

CkInit ==
    /\ ck_call \in [model : {"MedClipVisionModel"},
                    checkpoint : CheckpointArgs,
                    medclip_checkpoint : CheckpointArgs,
                    vision_checkpoint : {NoCheckpoint}]
               \cup [model : {"MedClipModel"},
                     checkpoint : CheckpointArgs,
                     medclip_checkpoint : {NoCheckpoint},
                     vision_checkpoint : CheckpointArgs]
    /\ ck_loaded = {}
    /\ ck_printed = <<>>
    /\ ck_status = "ready"

CkIdle ==
    /\ ck_call = [model |-> "None", checkpoint |-> NoCheckpoint,
                  medclip_checkpoint |-> NoCheckpoint,
                  vision_checkpoint |-> NoCheckpoint]
    /\ ck_loaded = {}
    /\ ck_printed = <<>>
    /\ ck_status = "idle"

CkResult ==
    IF ck_call.model = "MedClipVisionModel"
    THEN VisionModelInit(ck_call.checkpoint, ck_call.medclip_checkpoint)
    ELSE MedClipModelInit(ck_call.checkpoint, ck_call.vision_checkpoint)

\* MedClipVisionModel(...) runs to its end
ConstructVisionModel ==
    /\ ck_status = "ready"
    /\ ck_call.model = "MedClipVisionModel"
    /\ ~CkResult.raised
    /\ ck_loaded' = CkResult.loaded
    /\ ck_printed' = CkResult.printed
    /\ ck_status' = "constructed"
    /\ UNCHANGED ck_call
    /\ UNCHANGED <<collVars, cutVars, modelVars, pcVars, clfVars>>

\* MedClipModel(...) runs to its end
ConstructMedClipModel ==
    /\ ck_status = "ready"
    /\ ck_call.model = "MedClipModel"
    /\ ~CkResult.raised
    /\ ck_loaded' = CkResult.loaded
    /\ ck_printed' = CkResult.printed
    /\ ck_status' = "constructed"
    /\ UNCHANGED ck_call
    /\ UNCHANGED <<collVars, cutVars, modelVars, pcVars, clfVars>>

\* a load_state_dict of the constructor raises RuntimeError
ConstructRaises ==
    /\ ck_status = "ready"
    /\ CkResult.raised
    /\ ck_loaded' = CkResult.loaded
    /\ ck_printed' = CkResult.printed
    /\ ck_status' = "raised"
    /\ UNCHANGED ck_call
    /\ UNCHANGED <<collVars, cutVars, modelVars, pcVars, clfVars>>

CkNext == ConstructVisionModel \/ ConstructMedClipModel \/ ConstructRaises

----------------------------------------------------------------------------
(* load_from_medclip called on a weights file of its own.                  *)

\* the keys a weights file given to load_from_medclip may hold: the state
\* dict of MedClipModel, a vision-only key, and keys of a dual encoder saved
\* from inside a wrapper (MedClipPromptClassifier keeps the dual encoder in
\* its attribute model, nn.DataParallel in module, and a wrapper may keep it
\* in an attribute vision_model)
WrappedKeys ==
    {<<"model", "vision_model", "projection_head", "weight">>,
     <<"module", "vision_model", "model", "weight">>,
     <<"vision_model", "vision_model", "model", "weight">>}
MedclipFileKeys == MedClipKeys \cup {<<"model", "weight">>} \cup WrappedKeys

LoadFromMedclipInit ==
    /\ ck_call \in [model : {"load_from_medclip"},
                    checkpoint : {NoCheckpoint},
                    medclip_checkpoint : SUBSET MedclipFileKeys,
                    vision_checkpoint : {NoCheckpoint}]
    /\ ck_loaded = {}
    /\ ck_printed = <<>>
    /\ ck_status = "ready"

\* load_from_medclip(checkpoint) runs to its end
LoadFromMedclip ==
    /\ ck_status = "ready"
    /\ ck_call.model = "load_from_medclip"
    /\ \E r \in {VisionLoadFromMedclip(ck_call.medclip_checkpoint)} :
        /\ ~r.raised
        /\ ck_loaded' = r.loaded
        /\ ck_printed' = r.printed
    /\ ck_status' = "returned"
    /\ UNCHANGED ck_call
    /\ UNCHANGED <<collVars, cutVars, modelVars, pcVars, clfVars>>

----------------------------------------------------------------------------
(* Specifications, one per component.                                      *)

InitCollator == CollInit /\ CutIdle /\ ModelIdle /\ PromptIdle /\ ClfIdle /\ CkIdle
SpecCollator == InitCollator /\ [][CollNext]_vars

InitCut ==
    /\ CutInit
    /\ batch = <<>>
    /\ is_train = TRUE
    /\ model_max_length \in 1..MaxModelLen
    /\ cut_reports = <<>>
    /\ text_list = <<>>
    /\ pixel_values = <<>>
    /\ input_ids = <<>>
    /\ coll_status = "idle"
    /\ ModelIdle
    /\ PromptIdle
    /\ ClfIdle
    /\ CkIdle
SpecCut == InitCut /\ [][CutNext]_vars

InitModel == ModelInit /\ CollIdle /\ CutIdle /\ PromptIdle /\ ClfIdle /\ CkIdle
SpecModel == InitModel /\ [][ModelNext]_vars

InitPrompt == PromptInit /\ ModelIdle /\ CollIdle /\ CutIdle /\ ClfIdle /\ CkIdle
SpecPrompt == InitPrompt /\ [][PromptNext]_vars

InitClassifier == ClfInit /\ CollIdle /\ CutIdle /\ ModelIdle /\ PromptIdle /\ CkIdle
SpecClassifier == InitClassifier /\ [][ClfNext]_vars

InitCheckpoint == CkInit /\ CollIdle /\ CutIdle /\ ModelIdle /\ PromptIdle /\ ClfIdle
SpecCheckpoint == InitCheckpoint /\ [][CkNext]_vars

InitLoadFromMedclip ==
    LoadFromMedclipInit /\ CollIdle /\ CutIdle /\ ModelIdle /\ PromptIdle /\ ClfIdle
SpecLoadFromMedclip == InitLoadFromMedclip /\ [][LoadFromMedclip]_vars

----------------------------------------------------------------------------
(* Claims about the collator.                                              *)

RECURSIVE SumImages(_, _)
SumImages(x, k) ==
    IF k = 0 THEN 0
    ELSE SumImages(x, k - 1) + Len(x[k].frontal) + Len(x[k].lateral)

\* C1: whenever __call__ returns, the number of rows of pixel_values equals
\* the number of tokenized text rows, and both equal the sum over the
\* patients of the batch of (#frontal + #lateral).
C1_RowCounts ==
    coll_status = "returned" =>
        /\ Len(pixel_values) = Len(input_ids)
        /\ Len(input_ids) = SumImages(batch, Len(batch))

\* C1 witness: a returned batch of two patients, one of them with several
\* images of both projections and the other with a different count.
C1_Witness ==
    /\ coll_status = "returned"
    /\ Len(batch) = 2
    /\ Len(batch[1].frontal) = 2 /\ Len(batch[1].lateral) = 1
    /\ Len(batch[2].frontal) = 0 /\ Len(batch[2].lateral) = 2
    /\ Len(pixel_values) = 5

\* position of an image in the order "batch order, frontal before lateral,
\* list order": image a comes strictly before image b
ImageBefore(a, b) ==
    \/ a[1] < b[1]
    \/ a[1] = b[1] /\ a[2] = "frontal" /\ b[2] = "lateral"
    \/ a[1] = b[1] /\ a[2] = b[2] /\ a[3] < b[3]

BatchImages(x) ==
    UNION {{x[p].frontal[k] : k \in 1..Len(x[p].frontal)}
           \cup {x[p].lateral[k] : k \in 1..Len(x[p].lateral)} : p \in 1..Len(x)}

\* t is the report r itself or max_len consecutive words of it
IsReportOrWindow(t, r) ==
    \/ t = r
    \/ \E s \in 0..(Len(Split(r)) - model_max_length) :
            Split(t) = [k \in 1..model_max_length |-> Split(r)[s + k]]

\* C2: images and texts come out in the same order: patients in batch order,
\* within a patient all frontal then all lateral images, the patient's report
\* (the local `report`: the record's report, or in training mode possibly
\* its random crop, drawn once per patient) once per image, so that the i-th
\* text is the report of the patient who owns the i-th image.
C2_SameOrder ==
    coll_status = "returned" =>
        /\ Len(text_list) = Len(pixel_values)
        /\ Len(input_ids) = Len(text_list)
        /\ {pixel_values[i].pixels_of : i \in 1..Len(pixel_values)} = BatchImages(batch)
        /\ \A i \in 1..Len(pixel_values) :
            /\ text_list[i] = cut_reports[pixel_values[i].pixels_of[1]]
            /\ input_ids[i].tokens_of = text_list[i]
            /\ ~is_train => text_list[i] = batch[pixel_values[i].pixels_of[1]].report
            /\ is_train => IsReportOrWindow(text_list[i],
                                            batch[pixel_values[i].pixels_of[1]].report)
        /\ \A i, j \in 1..Len(pixel_values) :
            i < j => ImageBefore(pixel_values[i].pixels_of, pixel_values[j].pixels_of)

\* C2 witness: the example of the specification: 1 frontal with "a b c", then
\* 2 laterals with "d e f", give the texts ["a b c", "d e f", "d e f"].
C2_Witness ==
    /\ coll_status = "returned"
    /\ ~is_train
    /\ batch = <<Patient(1, 1, 0, ReportABC), Patient(2, 0, 2, ReportDEF)>>
    /\ text_list = <<ReportABC, ReportDEF, ReportDEF>>
    /\ Len(pixel_values) = 3

\* C8: the call never fails: for every batch, also one in which every patient
\* has empty image lists, __call__ returns a result.
C8_NeverFails == coll_status # "raised"

----------------------------------------------------------------------------
(* Claims about _text_random_cut_.                                         *)

\* C3: if the text has at most max_len words the output is the input
\* unchanged; otherwise the output has exactly max_len words and is a
\* contiguous slice of the original word sequence.
C3_CutContract ==
    cut_status = "returned" =>
        IF Len(Split(text)) <= model_max_length
        THEN cut_result = text
        ELSE /\ Len(Split(cut_result)) = model_max_length
             /\ \E s \in 0..(Len(Split(text)) - model_max_length) :
                    Split(cut_result)
                        = [k \in 1..model_max_length |-> Split(text)[s + k]]

\* C3 witness: a text longer than max_len whose window does not start at the
\* first word.
C3_Witness ==
    /\ cut_status = "returned"
    /\ Len(Split(text)) > model_max_length
    /\ cut_start >= 1
    /\ model_max_length >= 2

\* the cut draws start index s and returns the window that starts there
CutDraws(s) == CutReturnWindow /\ cut_start' = s

\* C11: when the text has more than max_len words, every start index from 0
\* to len(words) - max_len inclusive can be drawn, the final window that
\* ends at the last word included.
C11_EveryWindowPossible ==
    (cut_status = "ready" /\ Len(Split(text)) > model_max_length) =>
        \A s \in 0..(Len(Split(text)) - model_max_length) : ENABLED CutDraws(s)

----------------------------------------------------------------------------
(* Claims about MedClipModel.                                              *)

\* C4: for every image embedding i and text embedding j, logits_per_text[j][i]
\* is dot(text_j, img_i) * exp(clamp(log_scale, 0, 4.6052)), log_scale being
\* the parameter's value before the call (below, inside or above the range),
\* and the returned logits (logits_per_image) are its exact transpose.
C4_Logits ==
    fwd_status = "returned" =>
        LET before == logit_scale_before
            scale  == Exp(IF before < 0 THEN 0
                          ELSE IF before > 46052 THEN 46052 ELSE before)
            img    == fwd_in.img_embeds
            txt    == fwd_in.text_embeds
        IN /\ Len(fwd_out.logits_per_text) = Len(txt)
           /\ Len(fwd_out.logits) = Len(img)
           /\ \A j \in 1..Len(txt) : Len(fwd_out.logits_per_text[j]) = Len(img)
           /\ \A i \in 1..Len(img) : Len(fwd_out.logits[i]) = Len(txt)
           /\ \A j \in 1..Len(txt), i \in 1..Len(img) :
                /\ fwd_out.logits_per_text[j][i] = Dot(txt[j], img[i]) * scale
                /\ fwd_out.logits[i][j] = fwd_out.logits_per_text[j][i]

\* C4 witness: a returned call with two images and one text, a parameter
\* that was out of the clamp range, and a logit that is not zero.
C4_Witness ==
    /\ fwd_status = "returned"
    /\ logit_scale_before < 0
    /\ Len(fwd_in.img_embeds) = 2
    /\ Len(fwd_in.text_embeds) = 1
    /\ fwd_out.logits[1][1] # fwd_out.logits[2][1]

\* the row-wise term of index i of the cross entropy with the diagonal as
\* the correct class: the bag of the differences s[i][c] - s[i][i]
DiagRowTerm(sim, i) ==
    [v \in {sim[i][c] - sim[i][i] : c \in 1..Len(sim)} |->
        Cardinality({c \in 1..Len(sim) : sim[i][c] - sim[i][i] = v})]

\* the column-wise term of index i
DiagColTerm(sim, i) ==
    [v \in {sim[r][i] - sim[i][i] : r \in 1..Len(sim)} |->
        Cardinality({r \in 1..Len(sim) : sim[r][i] - sim[i][i] = v})]

\* (CE(S, arange(N)) + CE(S transposed, arange(N))) / 2 of an N x N matrix
MeanOfRowAndColumnCE(sim) ==
    LET idx == 1..Len(sim)
        terms == {DiagRowTerm(sim, i) : i \in idx} \cup {DiagColTerm(sim, i) : i \in idx}
    IN [kind |-> "loss",
        sum  |-> [t \in terms |->
                    Cardinality({i \in idx : DiagRowTerm(sim, i) = t})
                    + Cardinality({i \in idx : DiagColTerm(sim, i) = t})],
        div  |-> 2 * Len(sim)]

\* C5: the loss_value forward returns with a truthy return_loss is the mean
\* of the row-wise and the column-wise cross entropy of the N x N similarity
\* matrix with the diagonal as the correct class; otherwise it is None.
C5_ClipLoss ==
    fwd_status = "returned" =>
        IF Truthy(fwd_in.return_loss)
        THEN /\ Len(fwd_in.img_embeds) = Len(fwd_in.text_embeds)
             /\ fwd_out.loss_value = MeanOfRowAndColumnCE(fwd_out.logits_per_text)
             /\ fwd_out.loss_value = MeanOfRowAndColumnCE(fwd_out.logits)
        ELSE fwd_out.loss_value = NoneValue

\* C5 witness: a returned loss of a 2 x 2 similarity matrix that is not
\* symmetric, so that rows and columns differ.
C5_Witness ==
    /\ fwd_status = "returned"
    /\ fwd_in.return_loss = "True"
    /\ Len(fwd_in.img_embeds) = 2
    /\ fwd_out.logits[1][2] # fwd_out.logits[2][1]
    /\ fwd_out.loss_value.kind = "loss"

----------------------------------------------------------------------------
(* Claims about MedClipPromptClassifier.                                   *)

\* the score of image i for the class of position k
ClassScore(i, k) ==
    LET e == pc_prompts[k].embeds
        l == [p \in 1..Len(e) |-> Dot(pc_pixels[i], e[p]) * Exp(logit_scale)]
    IN IF pc_ensemble
       THEN [num |-> SumSeq(l), den |-> Len(e)]
       ELSE [num |-> CHOOSE m \in {l[p] : p \in 1..Len(e)} :
                        \A p \in 1..Len(e) : l[p] <= m,
             den |-> 1]

\* C7 as stated: the returned matrix is class-by-image (one row per class,
\* one column per image), its entry for class k and image i being the mean
\* (ensemble) or max over the class's prompts, class k being class_names[k].
C7_ClassByImage ==
    pc_status = "returned" =>
        /\ pc_out.class_names = [k \in 1..Len(pc_prompts) |-> pc_prompts[k].cls_name]
        /\ Len(pc_out.logits) = Len(pc_prompts)
        /\ \A k \in 1..Len(pc_prompts) :
            /\ Len(pc_out.logits[k]) = Len(pc_pixels)
            /\ \A i \in 1..Len(pc_pixels) : pc_out.logits[k][i] = ClassScore(i, k)

\* C7 amended: the returned matrix is image-by-class (one row per image, one
\* column per class); its entry for image i and the k-th class is the mean
\* (ensemble on) or the max (ensemble off) over that class's prompts of the
\* image-to-text logits, and class_names lists the classes in the iteration
\* order of the prompt mapping, column k being class_names[k].
C7_ImageByClass ==
    pc_status = "returned" =>
        /\ pc_out.class_names = [k \in 1..Len(pc_prompts) |-> pc_prompts[k].cls_name]
        /\ Len(pc_out.logits) = Len(pc_pixels)
        /\ \A i \in 1..Len(pc_pixels) :
            /\ Len(pc_out.logits[i]) = Len(pc_prompts)
            /\ \A k \in 1..Len(pc_prompts) : pc_out.logits[i][k] = ClassScore(i, k)

\* C7 witness: one image scored against two classes of two prompts each, the
\* classes in the reverse of the alphabetical order, with different scores.
C7_Witness ==
    /\ pc_status = "returned"
    /\ Len(pc_pixels) = 1
    /\ Len(pc_prompts) = 2
    /\ pc_prompts[1].cls_name = "Cardiomegaly"
    /\ Len(pc_prompts[1].embeds) = 2
    /\ pc_out.class_names = <<"Cardiomegaly", "Atelectasis">>
    /\ pc_out.logits[1][1] # pc_out.logits[1][2]

----------------------------------------------------------------------------
(* Claims about MedClipClassifier.                                         *)

\* C6: with labels and return_loss, a rank-1 label vector of length B in
\* binary or multilabel mode reaches the loss with shape (B, 1) and float
\* type; in multiclass mode labels of any rank reach the loss as an
\* integer-typed rank-1 vector.
C6_Labels ==
    (clf_fwd_status # "none" /\ clf_call.return_loss /\ clf_call.labels # NoLabels) =>
        /\ (Lower(clf_args.mode) \in {Binary, Multilabel}
            /\ Len(clf_call.labels.shape) = 1) =>
                clf_loss_call.labels
                    = [shape |-> <<clf_call.labels.shape[1], 1>>, dtype |-> "float32"]
        /\ Lower(clf_args.mode) = Multiclass =>
                /\ clf_loss_call.labels.dtype = "int64"
                /\ Len(clf_loss_call.labels.shape) = 1

\* C6 witness: integer labels of shape (2,) given in binary mode reach the
\* loss as float labels of shape (2, 1).
C6_Witness ==
    /\ clf_fwd_status = "returned"
    /\ Lower(clf_args.mode) = Binary
    /\ clf_call.return_loss
    /\ clf_call.labels = [shape |-> <<2>>, dtype |-> "int64"]
    /\ clf_loss_call.labels = [shape |-> <<2, 1>>, dtype |-> "float32"]

\* C10: for every mode string the assertion accepts (any letter-casing of
\* multiclass, multilabel or binary): with num_class > 2 multiclass selects
\* cross entropy and multilabel selects binary cross entropy with logits,
\* both over num_class outputs; with num_class <= 2 the head has one output
\* with binary cross entropy with logits; any other mode string fails the
\* assertion.
C10_ModeSelectsLoss ==
    clf_status \in {"constructed", "assertion_failed"} =>
        IF Lower(clf_args.mode) \in {Multiclass, Multilabel, Binary}
        THEN /\ clf_status = "constructed"
             /\ (clf_args.num_class > 2 /\ Lower(clf_args.mode) = Multiclass) =>
                    clf.loss_fn = "CrossEntropyLoss" /\ clf.fc_out = clf_args.num_class
             /\ (clf_args.num_class > 2 /\ Lower(clf_args.mode) = Multilabel) =>
                    clf.loss_fn = "BCEWithLogitsLoss" /\ clf.fc_out = clf_args.num_class
             /\ clf_args.num_class <= 2 =>
                    clf.loss_fn = "BCEWithLogitsLoss" /\ clf.fc_out = 1
        ELSE clf_status = "assertion_failed"

----------------------------------------------------------------------------
(* Claims about checkpoint loading.                                        *)

\* C9 as stated: in each of the three loading modes a checkpoint with
\* missing or unexpected keys is only reported, and construction completes.
C9_NoMismatchRaises ==
    ck_status \in {"constructed", "raised"} => ck_status = "constructed"

\* the lines a lenient load of state_dict into the vision model prints
VisionReport(state_dict) ==
    IF state_dict = NoCheckpoint THEN <<>>
    ELSE <<[line |-> "missing keys:",
            keys |-> {k \in VisionKeys : k \notin state_dict}],
           [line |-> "unexpected keys:",
            keys |-> {k \in state_dict : k \notin VisionKeys}],
           [line |-> "load model weight from:", keys |-> {}]>>

\* C9 amended: in the two modes that load into MedClipVisionModel (a
\* vision-only checkpoint, a dual-encoder checkpoint via load_from_medclip)
\* missing and unexpected keys are printed and construction completes,
\* whatever the keys; loading a full dual-encoder checkpoint into
\* MedClipModel is strict: any missing or unexpected key raises instead of
\* being reported (without a checkpoint construction completes).
C9_LenientVisionStrictFull ==
    ck_status \in {"constructed", "raised"} =>
        IF ck_call.model = "MedClipVisionModel"
        THEN /\ ck_status = "constructed"
             /\ ck_printed
                  = VisionReport(ck_call.checkpoint)
                    \o VisionReport(IF ck_call.medclip_checkpoint = NoCheckpoint
                                    THEN NoCheckpoint
                                    ELSE NewStateDict(ck_call.medclip_checkpoint))
        ELSE /\ ck_call.checkpoint = NoCheckpoint => ck_status = "constructed"
             /\ (ck_call.checkpoint # NoCheckpoint
                 /\ ck_call.checkpoint # MedClipKeys) => ck_status = "raised"
             /\ SubSeq(ck_printed, 1, Len(VisionReport(ck_call.vision_checkpoint)))
                  = VisionReport(ck_call.vision_checkpoint)

\* C9 witness: a vision-only checkpoint with a missing and an unexpected key
\* is loaded into MedClipVisionModel; both are printed and the model is built.
C9_Witness ==
    /\ ck_status = "constructed"
    /\ ck_call.model = "MedClipVisionModel"
    /\ ck_call.checkpoint = {<<"model", "weight">>, <<"logit_scale">>}
    /\ ck_call.medclip_checkpoint = NoCheckpoint
    /\ ck_printed[1] = [line |-> "missing keys:", keys |-> {<<"projection_head", "weight">>}]
    /\ ck_printed[2] = [line |-> "unexpected keys:", keys |-> {<<"logit_scale">>}]
    /\ ck_loaded = {<<"model", "weight">>}

\* the keys of the new_state_dict that load_from_medclip handed to
\* load_state_dict: those it loaded and those it printed as unexpected
PassedKeys == ck_loaded \cup ck_printed[2].keys

\* the keys of state_dict that start with the prefix vision_model.
LeadingVisionKeys(state_dict) ==
    {k \in state_dict : Len(k) >= 2 /\ Head(k) = "vision_model"}

\* C12: load_from_medclip passes to the vision-only model exactly the keys
\* that start with the prefix vision_model., each with only that leading
\* prefix removed and the rest of the key unchanged; keys without that
\* leading prefix are not passed on.
C12_LeadingPrefixOnly ==
    (ck_status = "returned" /\ ck_call.model = "load_from_medclip") =>
        PassedKeys = {Tail(k) : k \in LeadingVisionKeys(ck_call.medclip_checkpoint)}

====
